---- MODULE Spec2Model ----
\* Verification model of the zrx-id crate: the span-indexed Format string
\* (format.rs, span.rs, encoding.rs, container.rs), the Id and Selector
\* wrappers (id.rs, selector.rs) and the Matcher and its Builder
\* (matcher.rs, builder.rs).
\*
\* Byte strings are kept run-length encoded: a string is a sequence of runs
\* [b |-> byte, n |-> count] in which no run is empty and no two neighbouring
\* runs hold the same byte, so that two strings are equal exactly when their
\* bytes are, and the 16-bit span arithmetic can be exercised at its real
\* limits (65535, 32767) without enumerating 65535 bytes.
EXTENDS Integers, Sequences, FiniteSets, TLC

\* ------------------------------------------------------------------------
\* Program constants
\* ------------------------------------------------------------------------

U16_MAX == 65535
I16_MAX == 32767
I16_MIN == -32768
COLON == 58
PERCENT == 37
BACKSLASH == 92
DEL == 127
SPACE == 32
FormatN == 3
IdN == 6
SLOT_FULL == 5
STAR == 42
SLASH == 47
DOT == 46

\* ------------------------------------------------------------------------
\* Bounds of the model
\* ------------------------------------------------------------------------

MaxSteps == 3
MaxAdds == 2
MaxCalls == 2

\* ------------------------------------------------------------------------
\* Byte strings (Vec<u8> / &str), run-length encoded
\* ------------------------------------------------------------------------

Run(b, n) == [b |-> b, n |-> n]

Rep(b, n) == IF n <= 0 THEN <<>> ELSE <<Run(b, n)>>

RECURSIVE ByteLen(_)
ByteLen(r) == IF r = <<>> THEN 0 ELSE Head(r).n + ByteLen(Tail(r))

Cat(a, b) ==
    IF a = <<>> THEN b
    ELSE IF b = <<>> THEN a
    ELSE IF a[Len(a)].b = b[1].b
         THEN SubSeq(a, 1, Len(a) - 1)
              \o <<Run(b[1].b, a[Len(a)].n + b[1].n)>> \o Tail(b)
         ELSE a \o b

RECURSIVE Str(_)
Str(s) == IF s = <<>> THEN <<>> ELSE Cat(Rep(Head(s), 1), Str(Tail(s)))

RECURSIVE Bytes(_)
Bytes(r) ==
    IF r = <<>> THEN <<>>
    ELSE [k \in 1..Head(r).n |-> Head(r).b] \o Bytes(Tail(r))

RECURSIVE Take(_, _)
Take(r, k) ==
    IF k <= 0 \/ r = <<>> THEN <<>>
    ELSE IF Head(r).n <= k
         THEN Cat(<<Head(r)>>, Take(Tail(r), k - Head(r).n))
         ELSE <<Run(Head(r).b, k)>>

RECURSIVE Drop(_, _)
Drop(r, k) ==
    IF k <= 0 \/ r = <<>> THEN r
    ELSE IF Head(r).n <= k
         THEN Drop(Tail(r), k - Head(r).n)
         ELSE <<Run(Head(r).b, Head(r).n - k)>> \o Tail(r)

\* &value[start..end]; the caller checks start <= end <= len first.
Slice(r, start, end) == Take(Drop(r, start), end - start)

\* Vec::splice(start..end, new), same precondition.
Splice(r, start, end, new) == Cat(Cat(Take(r, start), new), Drop(r, end))

RECURSIVE CountByte(_, _)
CountByte(r, b) ==
    IF r = <<>> THEN 0
    ELSE (IF Head(r).b = b THEN Head(r).n ELSE 0) + CountByte(Tail(r), b)

\* ------------------------------------------------------------------------
\* encoding.rs
\* ------------------------------------------------------------------------

\* SET = CONTROLS.add(b':'); percent_encode also encodes every non-ASCII byte.
ShouldEncode(b) == b < SPACE \/ b = DEL \/ b > DEL \/ b = COLON

HexDigit(k) == IF k < 10 THEN 48 + k ELSE 55 + k

IsHex(b) == b \in 48..57 \/ b \in 65..70 \/ b \in 97..102

HexVal(b) == IF b \in 48..57 THEN b - 48
             ELSE IF b \in 65..70 THEN b - 55 ELSE b - 87

PercentByte(b) == Str(<<PERCENT, HexDigit(b \div 16), HexDigit(b % 16)>>)

RECURSIVE RepeatStr(_, _)
RepeatStr(s, n) == IF n <= 0 THEN <<>> ELSE Cat(s, RepeatStr(s, n - 1))

RECURSIVE percent_encode(_)
percent_encode(r) ==
    IF r = <<>> THEN <<>>
    ELSE IF ShouldEncode(Head(r).b)
         THEN Cat(RepeatStr(PercentByte(Head(r).b), Head(r).n),
                  percent_encode(Tail(r)))
         ELSE Cat(<<Head(r)>>, percent_encode(Tail(r)))

\* Number of chunks the PercentEncode iterator yields: one per encoded byte,
\* one per maximal stretch of bytes that need no encoding.
RECURSIVE Chunks(_, _)
Chunks(r, inPlain) ==
    IF r = <<>> THEN 0
    ELSE IF ShouldEncode(Head(r).b)
         THEN Head(r).n + Chunks(Tail(r), FALSE)
         ELSE (IF inPlain THEN 0 ELSE 1) + Chunks(Tail(r), TRUE)

\* encode(): Cow<str> from the iterator; it is Owned exactly when the
\* iterator yields a second chunk.
encode(v) == [bytes |-> percent_encode(v), owned |-> Chunks(v, FALSE) >= 2]

RECURSIVE percent_decode(_)
percent_decode(r) ==
    IF r = <<>> THEN <<>>
    ELSE IF Head(r).b # PERCENT
         THEN Cat(<<Head(r)>>, percent_decode(Tail(r)))
         ELSE LET nxt == Bytes(Take(Drop(r, 1), 2))
              IN  IF Len(nxt) = 2 /\ IsHex(nxt[1]) /\ IsHex(nxt[2])
                  THEN Cat(Rep(16 * HexVal(nxt[1]) + HexVal(nxt[2]), 1),
                           percent_decode(Drop(r, 3)))
                  ELSE Cat(Rep(PERCENT, 1), percent_decode(Drop(r, 1)))

\* U+FFFD as UTF-8
REPLACEMENT == Str(<<239, 191, 189>>)

\* decode_utf8_lossy, for strings whose non-ASCII bytes are lone bytes: every
\* such byte is an invalid sequence of its own and becomes U+FFFD.
RECURSIVE utf8_lossy(_)
utf8_lossy(r) ==
    IF r = <<>> THEN <<>>
    ELSE IF Head(r).b > DEL
         THEN Cat(RepeatStr(REPLACEMENT, Head(r).n), utf8_lossy(Tail(r)))
         ELSE Cat(<<Head(r)>>, utf8_lossy(Tail(r)))

decode(r) == utf8_lossy(percent_decode(r))

\* ------------------------------------------------------------------------
\* span.rs
\* ------------------------------------------------------------------------

Span(start, end) == [start |-> start, end |-> end]

\* Span::len: end - start on u16; the subtraction wraps in a release build
\* and panics in a build with overflow checks.
SpanLen(span) == (span.end - span.start) % (U16_MAX + 1)

SpanLenOverflows(span) == span.end < span.start

\* shift_start as it would be if the checked sum were dropped instead of
\* stored: the start stays where it is.
shift_start_stays(span, by, dbg) ==
    LET v == span.start + by
    IN  IF v < 0 \/ v > U16_MAX THEN [res |-> "Length", span |-> span]
        ELSE [res |-> "Ok", span |-> span]

\* Span::shift_start: checked_add_signed, then debug_assert!(value <= end).
shift_start(span, by, dbg) ==
    LET v == span.start + by
    IN  IF v < 0 \/ v > U16_MAX THEN [res |-> "Length", span |-> span]
        ELSE IF dbg /\ ~(v <= span.end) THEN [res |-> "Panic", span |-> span]
        ELSE [res |-> "Ok", span |-> [span EXCEPT !.start = v]]

\* Span::shift_end: checked_add_signed, then debug_assert!(value >= start).
shift_end(span, by, dbg) ==
    LET v == span.end + by
    IN  IF v < 0 \/ v > U16_MAX THEN [res |-> "Length", span |-> span]
        ELSE IF dbg /\ ~(v >= span.start) THEN [res |-> "Panic", span |-> span]
        ELSE [res |-> "Ok", span |-> [span EXCEPT !.end = v]]

\* shift as it would be if it moved the end of the span only.
shift_only_end(span, by, dbg) == shift_end(span, by, dbg)

\* shift as it would be if it always moved the start first.
shift_start_first(span, by, dbg) ==
    LET r == shift_start(span, by, dbg)
    IN  IF r.res # "Ok" THEN r ELSE shift_end(r.span, by, dbg)

\* Span::shift: the end first when growing, the start first when shrinking.
shift(span, by, dbg) ==
    IF by >= 0
    THEN LET r == shift_end(span, by, dbg)
         IN  IF r.res # "Ok" THEN r ELSE shift_start(r.span, by, dbg)
    ELSE LET r == shift_start(span, by, dbg)
         IN  IF r.res # "Ok" THEN r ELSE shift_end(r.span, by, dbg)

\* init::<N>(): N empty spans at offsets 0, 1, .., N-1. Span k of the code
\* is element k+1 of the sequence.
init(n) == [k \in 1..n |-> Span(k - 1, k - 1)]

\* ------------------------------------------------------------------------
\* format.rs
\* ------------------------------------------------------------------------

\* Format::new(): N-1 separators, empty spans, no flags. flags is the set of
\* the bits that are set in the u64.
new(n) == [value |-> Rep(COLON, n - 1), spans |-> init(n), flags |-> {}]

\* Indexing &self.value[range] panics unless start <= end <= len.
RangeOk(f, index) ==
    LET sp == f.spans[index + 1]
    IN  sp.start <= sp.end /\ sp.end <= ByteLen(f.value)

\* Format::get(index)
get(f, index) ==
    LET sp == f.spans[index + 1]
    IN  IF ~RangeOk(f, index) THEN [panic |-> TRUE, bytes |-> <<>>]
        ELSE LET raw == Slice(f.value, sp.start, sp.end)
             IN  [panic |-> FALSE,
                  bytes |-> IF index \in f.flags THEN decode(raw) ELSE raw]

\* The loop of Format::set: spans pos.. (1-based positions) are shifted in
\* order, and the first error ends the loop with the earlier spans shifted.
RECURSIVE shift_rest(_, _, _, _)
shift_rest(spans, pos, by, dbg) ==
    IF pos > Len(spans) THEN [res |-> "Ok", spans |-> spans]
    ELSE LET r == shift(spans[pos], by, dbg)
             sp == [spans EXCEPT ![pos] = r.span]
         IN  IF r.res # "Ok" THEN [res |-> r.res, spans |-> sp]
             ELSE shift_rest(sp, pos + 1, by, dbg)

\* Format::set(index, value): flags, then splice, then the length delta,
\* then the shifts; every step before an error has already taken effect.
set(f, index, v, dbg) ==
    LET enc == encode(v)
        sp == f.spans[index + 1]
        f1 == [f EXCEPT !.flags = IF enc.owned THEN @ \cup {index}
                                  ELSE @ \ {index}]
    IN  IF ~RangeOk(f, index) THEN [res |-> "Panic", f |-> f1]
        ELSE
        LET f2 == [f1 EXCEPT !.value =
                       Splice(@, sp.start, sp.end, enc.bytes)]
            len == ByteLen(enc.bytes)
            by == len - SpanLen(sp)
        IN  IF len > I16_MAX THEN [res |-> "Length", f |-> f2]
            ELSE IF dbg /\ SpanLenOverflows(sp)
                 THEN [res |-> "Panic", f |-> f2]
            ELSE IF by < I16_MIN THEN [res |-> "Length", f |-> f2]
            ELSE
            LET e == shift_end(sp, by, dbg)
                r == IF e.res # "Ok"
                     THEN [res |-> e.res, spans |-> f2.spans]
                     ELSE shift_rest([f2.spans EXCEPT ![index + 1] = e.span],
                                     index + 2, by, dbg)
            IN  [res |-> r.res, f |-> [f2 EXCEPT !.spans = r.spans]]

\* The scan of Format::from_str over the characters of the string; i is the
\* byte offset of the head of rest. A stretch of bytes that are neither a
\* separator nor a percent sign to look at is consumed in one step.
RECURSIVE scan(_, _, _, _, _, _, _, _)
scan(rest, i, start, index, spans, flags, n, dbg) ==
    IF rest = <<>>
    THEN [res |-> "Ok", start |-> start, index |-> index,
          spans |-> spans, flags |-> flags]
    ELSE
    LET h == Head(rest)
        stop(r) == [res |-> r, start |-> start, index |-> index,
                    spans |-> spans, flags |-> flags]
    IN  IF h.b = COLON
        THEN IF i > U16_MAX THEN stop("Length")
             ELSE IF index >= n THEN stop("Panic")
             ELSE IF dbg /\ start > i THEN stop("Panic")
             ELSE IF dbg /\ i = U16_MAX THEN stop("Panic")
             ELSE scan(Drop(rest, 1), i + 1, (i + 1) % (U16_MAX + 1),
                       index + 1, [spans EXCEPT ![index + 1] = Span(start, i)],
                       flags, n, dbg)
        ELSE IF h.b = PERCENT /\ index \notin flags
        THEN LET nxt == Bytes(Take(Drop(rest, 1), 2))
                 hex == Len(nxt) = 2 /\ IsHex(nxt[1]) /\ IsHex(nxt[2])
             IN  scan(Drop(rest, 1), i + 1, start, index, spans,
                      IF hex THEN flags \cup {index} ELSE flags, n, dbg)
        ELSE scan(Tail(rest), i + h.n, start, index, spans, flags, n, dbg)

\* Format::from_str as it would be if the final comparison of the span
\* count let strings with too few separators through.
from_str_accepts_fewer(s, n, dbg) ==
    LET sc == scan(s, 0, 0, 0, init(n), {}, n, dbg)
        len == ByteLen(s)
        none == new(n)
    IN  IF sc.res # "Ok" THEN [res |-> sc.res, f |-> none]
        ELSE IF len > U16_MAX THEN [res |-> "Length", f |-> none]
        ELSE IF sc.index >= n THEN [res |-> "Panic", f |-> none]
        ELSE IF dbg /\ sc.start > len THEN [res |-> "Panic", f |-> none]
        ELSE [res |-> "Ok",
              f |-> [value |-> s,
                     spans |-> [sc.spans EXCEPT ![sc.index + 1] =
                                    Span(sc.start, len)],
                     flags |-> sc.flags]]

\* Format::<N>::from_str
from_str(s, n, dbg) ==
    LET sc == scan(s, 0, 0, 0, init(n), {}, n, dbg)
        len == ByteLen(s)
        none == new(n)
    IN  IF sc.res # "Ok" THEN [res |-> sc.res, f |-> none]
        ELSE IF len > U16_MAX THEN [res |-> "Length", f |-> none]
        ELSE IF sc.index >= n THEN [res |-> "Panic", f |-> none]
        ELSE IF dbg /\ sc.start > len THEN [res |-> "Panic", f |-> none]
        ELSE IF sc.index # n - 1 THEN [res |-> "Cardinality", f |-> none]
        ELSE [res |-> "Ok",
              f |-> [value |-> s,
                     spans |-> [sc.spans EXCEPT ![sc.index + 1] =
                                    Span(sc.start, len)],
                     flags |-> sc.flags]]

\* ------------------------------------------------------------------------
\* A Format<3> under a sequence of calls
\* ------------------------------------------------------------------------

VARIABLES
    value,              \* Format::value
    spans,              \* Format::spans
    flags,              \* Format::flags
    result,             \* outcome of the last call: Ok, an error, or Panic
    last,               \* the last call and its arguments
    failed,             \* a set call on this Format has returned an error
    steps,              \* number of calls made
    debug_assertions,   \* the build: debug_assert! and overflow checks on
    builder,            \* Builder: the five GlobSetBuilders
    added,              \* the selectors whose add returned Ok, in order
    add_result,         \* outcome of the last Builder::add
    add_failed,         \* a Builder::add has returned an error
    matcher,            \* the Matcher that build() returned, once built
    query,              \* the last identifier asked and the two answers
    object,             \* an Id or a Selector: its kind and its Format<6>
    outcome,            \* outcome of the last call on Id or Selector
    call,               \* that call and its arguments
    set_failed,         \* a setter of this object has returned Length
    calls,              \* number of calls made on Id and Selector
    conversion          \* the last conversion of an Id to a path

fvars == <<value, spans, flags, result, last, failed, steps>>

mvars == <<builder, added, add_result, add_failed, matcher, query>>

ivars == <<object, outcome, call, set_failed, calls>>

pvars == <<conversion>>

vars == <<fvars, debug_assertions, mvars, ivars, pvars>>

Format == [value |-> value, spans |-> spans, flags |-> flags]

Join3(x, y, z) == Cat(Cat(Cat(Cat(x, Rep(COLON, 1)), y), Rep(COLON, 1)), z)

\* Values handed to set: empty, plain, a lone separator, a separator among
\* plain bytes, and the longest value an i16 length admits and the next one.
SetValues ==
    { <<>>, Str(<<97, 98>>), Str(<<COLON>>), Str(<<97, COLON, 98>>),
      Rep(97, I16_MAX), Rep(97, I16_MAX + 1) }

\* Strings handed to from_str: a string of the maximal length 65535, one
\* with a span longer than an i16, too few and too many separators, percent
\* signs with and without two hex digits, a separator at offset 65535, and
\* a string of 65536 bytes without a separator.
ParseInputs ==
    { Join3(<<>>, Rep(97, I16_MAX), Rep(98, I16_MAX - 1)),
      Join3(Rep(97, 40000), <<>>, <<>>),
      Str(<<97, COLON, 98>>),
      Rep(97, U16_MAX + 1),
      Str(<<97, COLON, 98, COLON, 99, COLON, 100>>),
      Join3(Str(<<PERCENT, 52, 49>>), Str(<<97, PERCENT, 51, 65, 98>>),
            Str(<<PERCENT, 52>>)),
      Join3(Rep(97, U16_MAX), <<>>, <<>>) }

FInit ==
    /\ value = new(FormatN).value
    /\ spans = new(FormatN).spans
    /\ flags = new(FormatN).flags
    /\ result = "Ok"
    /\ last = [op |-> "new", index |-> 0, v |-> <<>>]
    /\ failed = FALSE
    /\ steps = 0

Set(index, v) ==
    /\ result # "Panic"
    /\ steps < MaxSteps
    /\ LET r == set(Format, index, v, debug_assertions)
       IN  /\ value' = r.f.value
           /\ spans' = r.f.spans
           /\ flags' = r.f.flags
           /\ result' = r.res
           /\ failed' = (failed \/ r.res # "Ok")
    /\ last' = [op |-> "set", index |-> index, v |-> v]
    /\ steps' = steps + 1
    /\ UNCHANGED <<debug_assertions, mvars, ivars, pvars>>

Parse(s) ==
    /\ result # "Panic"
    /\ steps < MaxSteps
    /\ LET r == from_str(s, FormatN, debug_assertions)
       IN  /\ result' = r.res
           /\ IF r.res = "Ok"
              THEN /\ value' = r.f.value
                   /\ spans' = r.f.spans
                   /\ flags' = r.f.flags
                   /\ failed' = FALSE
              ELSE UNCHANGED <<value, spans, flags, failed>>
    /\ last' = [op |-> "parse", index |-> 0, v |-> s]
    /\ steps' = steps + 1
    /\ UNCHANGED <<debug_assertions, mvars, ivars, pvars>>


\* ------------------------------------------------------------------------
\* path.rs, id.rs, selector.rs: validation, parsing and accessors
\* ------------------------------------------------------------------------

None == [some |-> FALSE, v |-> <<>>]

Some(v) == [some |-> TRUE, v |-> v]

\* validate() as it would be if only the first byte of the value were
\* looked at.
validate_first_byte(v) ==
    IF Bytes(Take(v, 1)) = <<BACKSLASH>> THEN "Backslash" ELSE "Ok"

\* validate(): the value itself, or the Backslash error
validate(v) == IF CountByte(v, BACKSLASH) > 0 THEN "Backslash" ELSE "Ok"

ZRI == Str(<<122, 114, 105>>)

ZRS == Str(<<122, 114, 115>>)

\* Some(self.format.get(k)).filter(|value| !value.is_empty())
optional(f, k) ==
    LET g == get(f, k).bytes IN IF g = <<>> THEN None ELSE Some(g)

\* Selector::from_str
selector_from_str(s, dbg) ==
    IF validate(s) # "Ok" THEN [res |-> "Backslash", f |-> new(IdN)]
    ELSE LET r == from_str(s, IdN, dbg)
         IN  IF r.res # "Ok" THEN r
             ELSE IF get(r.f, 0).bytes # ZRS
                  THEN [res |-> "Prefix", f |-> new(IdN)]
                  ELSE r

\* Id::from_str as it would be if the check of the context looked at span 2,
\* the binding, instead of span 3.
id_from_str_checks_binding(s, dbg) ==
    IF validate(s) # "Ok" THEN [res |-> "Backslash", f |-> new(IdN)]
    ELSE LET r == from_str(s, IdN, dbg)
         IN  IF r.res # "Ok" THEN r
             ELSE IF get(r.f, 0).bytes # ZRI
                  THEN [res |-> "Prefix", f |-> new(IdN)]
             ELSE IF \E k \in {1, 2, 4} : get(r.f, k).bytes = <<>>
                  THEN [res |-> "Component", f |-> new(IdN)]
                  ELSE r

\* Id::from_str
id_from_str(s, dbg) ==
    IF validate(s) # "Ok" THEN [res |-> "Backslash", f |-> new(IdN)]
    ELSE LET r == from_str(s, IdN, dbg)
         IN  IF r.res # "Ok" THEN r
             ELSE IF get(r.f, 0).bytes # ZRI
                  THEN [res |-> "Prefix", f |-> new(IdN)]
             ELSE IF \E k \in {1, 3, 4} : get(r.f, k).bytes = <<>>
                  THEN [res |-> "Component", f |-> new(IdN)]
                  ELSE r

\* The five components in the order of the spans 1..5.
FIELDS == <<"scheme", "binding", "context", "path", "fragment">>

\* Selector::scheme() .. Selector::fragment(): every one is optional.
selector_components(f) == [k \in 1..5 |-> optional(f, k)]

\* Id::scheme() .. Id::fragment(): binding and fragment are optional.
id_components(f) ==
    [k \in 1..5 |-> IF k \in {2, 5} THEN optional(f, k)
                    ELSE Some(get(f, k).bytes)]

\* ------------------------------------------------------------------------
\* globset, as far as builder.rs and matcher.rs use it: patterns made of
\* literal bytes, '?', '*', '**' and a leading '**/', matched on bytes; a
\* '[' that is never closed makes Glob::new fail.
\* ------------------------------------------------------------------------

RECURSIVE glob_tokens_match(_, _)
glob_tokens_match(p, s) ==
    IF p = <<>> THEN s = <<>>
    ELSE IF Head(p) = STAR
         THEN \/ glob_tokens_match(Tail(p), s)
              \/ (s # <<>> /\ glob_tokens_match(p, Tail(s)))
    ELSE IF Head(p) = 63
         THEN s # <<>> /\ glob_tokens_match(Tail(p), Tail(s))
    ELSE s # <<>> /\ Head(s) = Head(p) /\ glob_tokens_match(Tail(p), Tail(s))

\* Glob matching of one pattern against one value.
glob_is_match(p, s) ==
    IF Len(p) >= 3 /\ SubSeq(p, 1, 3) = <<STAR, STAR, 47>>
    THEN LET rest == SubSeq(p, 4, Len(p))
         IN  \/ glob_tokens_match(rest, s)
             \/ \E k \in 1..Len(s) :
                    s[k] = 47 /\ glob_tokens_match(rest, SubSeq(s, k + 1, Len(s)))
    ELSE glob_tokens_match(p, s)

\* GlobSet::is_match
globset_is_match(gs, s) == \E k \in 1..Len(gs) : glob_is_match(gs[k], s)

\* GlobSet::matches: the indices of the matching patterns, ascending.
RECURSIVE globset_matches_from(_, _, _)
globset_matches_from(gs, s, k) ==
    IF k > Len(gs) THEN <<>>
    ELSE (IF glob_is_match(gs[k], s) THEN <<k - 1>> ELSE <<>>)
         \o globset_matches_from(gs, s, k + 1)

globset_matches(gs, s) == globset_matches_from(gs, s, 1)

\* ------------------------------------------------------------------------
\* builder.rs
\* ------------------------------------------------------------------------

\* Builder::new()
builder_new == [f \in {FIELDS[k] : k \in 1..5} |-> <<>>]

\* parse() as it would be if an empty component were compiled as the empty
\* pattern instead of being coerced to "**".
parse_empty_as_literal(component) ==
    LET p == IF component.some THEN Bytes(component.v) ELSE <<>>
    IN  IF \E k \in 1..Len(p) : p[k] = 91
        THEN [res |-> "Pattern", glob |-> <<>>]
        ELSE [res |-> "Ok", glob |-> p]

\* parse(): Glob::new(component.unwrap_or("**"))
parse(component) ==
    LET p == IF component.some THEN Bytes(component.v) ELSE <<STAR, STAR>>
    IN  IF \E k \in 1..Len(p) : p[k] = 91
        THEN [res |-> "Pattern", glob |-> <<>>]
        ELSE [res |-> "Ok", glob |-> p]

\* Builder::add, given the outcome sel of selector.to_selector(): the
\* components are compiled and added one after the other, and the first one
\* that fails to compile ends the call.
add(b, sel) ==
    LET comps == selector_components(sel.f)
        globs == [k \in 1..5 |-> parse(comps[k])]
        bad == {k \in 1..5 : globs[k].res # "Ok"}
        first == IF bad = {} THEN 6 ELSE CHOOSE k \in bad : \A j \in bad : k <= j
    IN  IF sel.res # "Ok" THEN [res |-> sel.res, b |-> b]
        ELSE [res |-> IF bad = {} THEN "Ok" ELSE "Pattern",
              b |-> [f \in DOMAIN b |->
                        LET k == CHOOSE j \in 1..5 : FIELDS[j] = f
                        IN  IF k < first THEN Append(b[f], globs[k].glob)
                            ELSE b[f]]]

\* Builder::build(): the five sets are compiled as they are.
build(b) == b

\* ------------------------------------------------------------------------
\* matcher.rs
\* ------------------------------------------------------------------------

\* U+FFFE as UTF-8
SENTINEL == <<239, 191, 190>>

\* compare()
compare(component, val) ==
    globset_is_match(component, IF val.some THEN Bytes(val.v) ELSE SENTINEL)

\* Matcher::is_match, given the components of the identifier
is_match(m, id) ==
    /\ compare(m.path, id[4])
    /\ compare(m.context, id[3])
    /\ compare(m.scheme, id[1])
    /\ compare(m.binding, id[2])
    /\ compare(m.fragment, id[5])

\* The loop of Matcher::matches as it would be if an absent value of the
\* identifier were taken for a component that no selector matches.
RECURSIVE count_slots_absent_fails(_, _, _, _)
count_slots_absent_fails(m, id, order, slots) ==
    IF order = <<>> THEN [res |-> "Ok", slots |-> slots, empty |-> FALSE]
    ELSE
    LET k == Head(order)
        ms == IF id[k].some
              THEN globset_matches(m[FIELDS[k]], Bytes(id[k].v)) ELSE <<>>
    IN  IF ms = <<>>
        THEN [res |-> "Ok", slots |-> slots, empty |-> TRUE]
        ELSE IF \E j \in 1..Len(ms) : ms[j] >= Len(slots)
        THEN [res |-> "Panic", slots |-> slots, empty |-> FALSE]
        ELSE count_slots_absent_fails(m, id, Tail(order),
                 [x \in 1..Len(slots) |->
                     IF \E j \in 1..Len(ms) : ms[j] = x - 1
                     THEN slots[x] + 1 ELSE slots[x]])

\* The loop of Matcher::matches over the (component, value) pairs.
RECURSIVE count_slots(_, _, _, _)
count_slots(m, id, order, slots) ==
    IF order = <<>> THEN [res |-> "Ok", slots |-> slots, empty |-> FALSE]
    ELSE
    LET k == Head(order)
        component == m[FIELDS[k]]
    IN  IF id[k].some
        THEN LET ms == globset_matches(component, Bytes(id[k].v))
             IN  IF ms = <<>>
                 THEN [res |-> "Ok", slots |-> slots, empty |-> TRUE]
                 ELSE IF \E j \in 1..Len(ms) : ms[j] >= Len(slots)
                 THEN [res |-> "Panic", slots |-> slots, empty |-> FALSE]
                 ELSE count_slots(m, id, Tail(order),
                          [x \in 1..Len(slots) |->
                              IF \E j \in 1..Len(ms) : ms[j] = x - 1
                              THEN slots[x] + 1 ELSE slots[x]])
        ELSE count_slots(m, id, Tail(order),
                 [x \in 1..Len(slots) |-> slots[x] + 1])

RECURSIVE full_slots(_, _)
full_slots(slots, k) ==
    IF k > Len(slots) THEN <<>>
    ELSE (IF slots[k] = SLOT_FULL THEN <<k - 1>> ELSE <<>>)
         \o full_slots(slots, k + 1)

\* Matcher::matches, given the components of the identifier
matches(m, id) ==
    LET c == count_slots(m, id, <<4, 3, 1, 2, 5>>,
                         [x \in 1..Len(m.scheme) |-> 0])
    IN  IF c.res # "Ok" THEN [res |-> c.res, indices |-> <<>>]
        ELSE IF c.empty THEN [res |-> "Ok", indices |-> <<>>]
        ELSE [res |-> "Ok", indices |-> full_slots(c.slots, 1)]

\* ------------------------------------------------------------------------
\* A Builder under a sequence of add calls, then the Matcher it builds
\* ------------------------------------------------------------------------

RECURSIVE JoinAll(_)
JoinAll(parts) ==
    IF Len(parts) = 1 THEN parts[1]
    ELSE Cat(Cat(parts[1], Rep(COLON, 1)), JoinAll(Tail(parts)))

SelStr(s, b, c, p, f) == JoinAll(<<ZRS, s, b, c, p, f>>)

IdStr(s, b, c, p, f) == JoinAll(<<ZRI, s, b, c, p, f>>)

\* Selectors handed to Builder::add: the all-wildcard selector, two that
\* name scheme and path, one that names a binding, one with a '*' path, two
\* whose binding or path is no valid glob, one whose binding is "???" and
\* whose fragment is the literal U+FFFE, and two that are no selector.
SelectorInputs ==
    { SelStr(<<>>, <<>>, <<>>, <<>>, <<>>),
      SelStr(Str(<<97>>), <<>>, <<>>, Str(<<97>>), <<>>),
      SelStr(Str(<<98>>), <<>>, <<>>, Str(<<98>>), <<>>),
      SelStr(<<>>, Str(<<97>>), <<>>, <<>>, <<>>),
      SelStr(<<>>, <<>>, <<>>, Str(<<97, STAR>>), <<>>),
      SelStr(Str(<<97>>), Str(<<91>>), <<>>, <<>>, <<>>),
      SelStr(<<>>, <<>>, <<>>, Str(<<91>>), <<>>),
      SelStr(<<>>, Str(<<63, 63, 63>>), <<>>, <<>>, Str(SENTINEL)),
      IdStr(<<>>, <<>>, <<>>, <<>>, <<>>),
      JoinAll(<<ZRS, Str(<<97>>)>>) }

\* Identifiers asked of the matcher: scheme a or b, binding absent or a,
\* context c, path a or b, no fragment; two with a fragment, one of them
\* with a binding too; and a string that is no identifier.
QueryIds ==
    { IdStr(Str(<<s>>), b, Str(<<99>>), Str(<<p>>), <<>>) :
          s \in {97, 98}, b \in {<<>>, Str(<<97>>)}, p \in {97, 98} }
    \cup { IdStr(Str(<<98>>), <<>>, Str(<<99>>), Str(<<98>>), Str(<<102>>)),
           IdStr(Str(<<97>>), Str(<<98>>), Str(<<99>>), Str(<<98>>),
                 Str(<<102>>)) }
    \cup { SelStr(Str(<<97>>), <<>>, Str(<<99>>), Str(<<97>>), <<>>) }

MInit ==
    /\ builder = builder_new
    /\ added = <<>>
    /\ add_result = "Ok"
    /\ add_failed = FALSE
    /\ matcher = [built |-> FALSE, sets |-> builder_new]
    /\ query = [id |-> <<>>, res |-> "None", is_match |-> FALSE,
                matches |-> <<>>]

Add(s) ==
    /\ ~matcher.built
    /\ Len(builder.scheme) < MaxAdds
    /\ \E r \in {add(builder, sel) :
                     sel \in {selector_from_str(s, debug_assertions)}} :
           /\ builder' = r.b
           /\ add_result' = r.res
           /\ added' = IF r.res = "Ok" THEN Append(added, s) ELSE added
           /\ add_failed' = (add_failed \/ r.res # "Ok")
    /\ UNCHANGED <<fvars, debug_assertions, matcher, query, ivars, pvars>>

Build ==
    /\ ~matcher.built
    /\ matcher' = [built |-> TRUE, sets |-> build(builder)]
    /\ UNCHANGED <<fvars, debug_assertions, builder, added, add_result,
                   add_failed, query, ivars, pvars>>

\* is_match(id) and matches(id) asked of the built matcher for one string.
Query(s) ==
    /\ matcher.built
    /\ query.res # "Panic"
    /\ \E id \in {id_from_str(s, debug_assertions)} :
       \E c \in {id_components(id.f)} :
       \E ms \in {matches(matcher.sets, c)} :
           query' = IF id.res # "Ok"
                    THEN [id |-> s, res |-> id.res, is_match |-> FALSE,
                          matches |-> <<>>]
                    ELSE [id |-> s, res |-> ms.res,
                          is_match |-> is_match(matcher.sets, c),
                          matches |-> ms.indices]
    /\ UNCHANGED <<fvars, debug_assertions, builder, added, add_result,
                   add_failed, matcher, ivars, pvars>>

\* ------------------------------------------------------------------------
\* id.rs, selector.rs: constructors, setters and the string form
\* ------------------------------------------------------------------------

\* Id::new as it would be if the empty binding were left out after the
\* scheme and a separator doubled after the context instead.
id_new_context_as_binding(scheme, context, path, dbg) ==
    IF \E v \in {scheme, context, path} : validate(v) # "Ok"
    THEN [res |-> "Backslash", f |-> new(IdN)]
    ELSE LET b1 == Cat(Str(<<122, 114, 105, COLON>>), encode(scheme).bytes)
             b2 == Cat(b1, Str(<<COLON>>))
             b3 == Cat(b2, encode(context).bytes)
             b4 == Cat(b3, Str(<<COLON, COLON>>))
             b5 == Cat(b4, encode(path).bytes)
             buffer == Cat(b5, Str(<<COLON>>))
         IN  from_str(buffer, IdN, dbg)

\* Id::new as it would be if the values were put into the string as they
\* are, without passing through the encoder.
id_new_unencoded(scheme, context, path, dbg) ==
    IF \E v \in {scheme, context, path} : validate(v) # "Ok"
    THEN [res |-> "Backslash", f |-> new(IdN)]
    ELSE LET b1 == Cat(Str(<<122, 114, 105, COLON>>), scheme)
             b2 == Cat(b1, Str(<<COLON, COLON>>))
             b3 == Cat(b2, context)
             b4 == Cat(b3, Str(<<COLON>>))
             b5 == Cat(b4, path)
             buffer == Cat(b5, Str(<<COLON>>))
         IN  from_str(buffer, IdN, dbg)

\* Id::new(scheme, context, path): the three values are validated and
\* encoded, the string is put together piece by piece and parsed as a
\* Format<6>.
id_new(scheme, context, path, dbg) ==
    IF \E v \in {scheme, context, path} : validate(v) # "Ok"
    THEN [res |-> "Backslash", f |-> new(IdN)]
    ELSE LET b1 == Cat(Str(<<122, 114, 105, COLON>>), encode(scheme).bytes)
             b2 == Cat(b1, Str(<<COLON, COLON>>))
             b3 == Cat(b2, encode(context).bytes)
             b4 == Cat(b3, Str(<<COLON>>))
             b5 == Cat(b4, encode(path).bytes)
             buffer == Cat(b5, Str(<<COLON>>))
         IN  from_str(buffer, IdN, dbg)

\* Selector::new(): "zrs:::::".parse()
selector_new(dbg) ==
    from_str(Str(<<122, 114, 115, COLON, COLON, COLON, COLON, COLON>>),
             IdN, dbg)

\* Selector::default(), derived: the Default of its Format<6>, Format::new()
selector_default == [res |-> "Ok", f |-> new(IdN)]

\* set_scheme .. set_fragment of Id and of Selector, k being the index of
\* the span: self.format.set(k, validate(value)?)
set_component(f, k, v, dbg) ==
    IF validate(v) # "Ok" THEN [res |-> "Backslash", f |-> f]
    ELSE set(f, k, v, dbg)

\* Display: the raw buffer as a string
to_string(f) == f.value

\* PartialEq of Format as a derived implementation would be: every field
\* is compared.
eq_all_fields(f, g) ==
    f.value = g.value /\ f.spans = g.spans /\ f.flags = g.flags

\* PartialEq of Format, which Id and Selector derive theirs from: the raw
\* buffers are compared, nothing else.
eq(f, g) == f.value = g.value

\* Ord of byte vectors: the bytes are compared from the front, and when one
\* vector ends first it is the lesser one.
RECURSIVE cmp_bytes(_, _)
cmp_bytes(a, b) ==
    IF a = <<>> THEN (IF b = <<>> THEN "Equal" ELSE "Less")
    ELSE IF b = <<>> THEN "Greater"
    ELSE IF Head(a).b # Head(b).b
         THEN (IF Head(a).b < Head(b).b THEN "Less" ELSE "Greater")
    ELSE LET n == IF Head(a).n < Head(b).n THEN Head(a).n ELSE Head(b).n
         IN  cmp_bytes(Drop(a, n), Drop(b, n))

\* Ord of Format: self.value.cmp(&other.value)
cmp(f, g) == cmp_bytes(f.value, g.value)

\* ------------------------------------------------------------------------
\* An Id or a Selector under a sequence of calls
\* ------------------------------------------------------------------------

\* Values handed to the setters: empty, plain, a lone separator, a separator
\* among plain bytes, with a backslash, and one byte longer than an i16
\* length admits.
ComponentValues ==
    { <<>>, Str(<<97>>), Str(<<COLON>>), Str(<<97, COLON, 98>>),
      Str(<<97, BACKSLASH, 98>>), Rep(97, I16_MAX + 1) }

\* Triples handed to Id::new: empty and plain values, a separator, a
\* backslash in each of the three places, a value that reads as a
\* percent-escape ("%41", and "%5C", the escape of the backslash), and
\* schemes that make the string 65535 bytes long, put a separator at offset
\* 65535, or exceed 65535 bytes.
NewTriples ==
    { <<s, c, p>> : s \in {<<>>, Str(<<102>>), Str(<<97, BACKSLASH>>)},
                    c \in {Str(<<100>>), Str(<<97, COLON, 98>>)},
                    p \in {Str(<<105>>), <<>>} }
    \cup { <<Str(<<102>>), Str(<<BACKSLASH>>), Str(<<105>>)>>,
           <<Str(<<102>>), Str(<<100>>), Str(<<BACKSLASH, 105>>)>>,
           <<Str(<<PERCENT, 52, 49>>), Str(<<100>>), Str(<<105>>)>>,
           <<Str(<<102>>), Str(<<100>>), Str(<<PERCENT, 53, 67>>)>>,
           <<Rep(97, U16_MAX - 10), Str(<<100>>), Str(<<105>>)>>,
           <<Rep(97, U16_MAX - 4), Str(<<100>>), Str(<<105>>)>>,
           <<Rep(97, U16_MAX), Str(<<100>>), Str(<<105>>)>> }

\* Strings handed to the parsers of Id and Selector.
IdStrings ==
    LET f == Str(<<102>>)
        d == Str(<<100>>)
        i == Str(<<105>>)
        e == <<>>
    IN  { IdStr(f, e, d, i, e),
          IdStr(f, Str(<<98>>), d, i, Str(<<103>>)),
          SelStr(e, e, e, e, e),
          SelStr(f, e, d, i, e),
          JoinAll(<<Str(<<PERCENT, 55, 65, 114, 105>>), f, e, d, i, e>>),
          JoinAll(<<Str(<<PERCENT, 55, 65, 114, 115>>), f, e, d, i, e>>),
          JoinAll(<<Str(<<120, 121, 122>>), f, e, d, i, e>>),
          IdStr(e, e, d, i, e),
          IdStr(f, e, e, i, e),
          IdStr(f, e, d, e, e),
          JoinAll(<<ZRI, f, e, d, i>>),
          JoinAll(<<ZRI, f, e, d, i, e, e>>),
          IdStr(f, e, Str(<<100, BACKSLASH>>), i, e),
          IdStr(e, e, Str(<<100, BACKSLASH>>), i, e),
          IdStr(Rep(97, U16_MAX), e, d, i, e),
          IdStr(Rep(97, U16_MAX), e, d, e, e),
          IdStr(Str(<<PERCENT, 51, 65>>), e, d, i, e) }

IInit ==
    /\ object = [kind |-> "Selector", f |-> selector_new(debug_assertions).f]
    /\ outcome = "Ok"
    /\ call = [op |-> "Selector::new", index |-> 0, args |-> <<>>]
    /\ set_failed = FALSE
    /\ calls = 0

\* What every call on Id and Selector does besides its own effect.
Called(op, index, args) ==
    /\ call' = [op |-> op, index |-> index, args |-> args]
    /\ calls' = calls + 1
    /\ UNCHANGED <<fvars, debug_assertions, mvars, pvars>>

\* A constructor or parser returned r: a new object of that kind on Ok.
Constructed(kind, r) ==
    /\ outcome' = r.res
    /\ IF r.res = "Ok"
       THEN /\ object' = [kind |-> kind, f |-> r.f]
            /\ set_failed' = FALSE
       ELSE UNCHANGED <<object, set_failed>>

IdNew(scheme, context, path) ==
    /\ outcome # "Panic"
    /\ calls < MaxCalls
    /\ \E r \in {id_new(scheme, context, path, debug_assertions)} :
           Constructed("Id", r)
    /\ Called("Id::new", 0, <<scheme, context, path>>)

IdParse(s) ==
    /\ outcome # "Panic"
    /\ calls < MaxCalls
    /\ \E r \in {id_from_str(s, debug_assertions)} : Constructed("Id", r)
    /\ Called("Id::from_str", 0, <<s>>)

SelectorParse(s) ==
    /\ outcome # "Panic"
    /\ calls < MaxCalls
    /\ \E r \in {selector_from_str(s, debug_assertions)} :
           Constructed("Selector", r)
    /\ Called("Selector::from_str", 0, <<s>>)

SelectorDefault ==
    /\ outcome # "Panic"
    /\ calls < MaxCalls
    /\ Constructed("Selector", selector_default)
    /\ Called("Selector::default", 0, <<>>)

\* One of the five setters, on the Id or Selector at hand.
SetComponent(k, v) ==
    /\ outcome # "Panic"
    /\ calls < MaxCalls
    /\ \E r \in {set_component(object.f, k, v, debug_assertions)} :
           /\ object' = [object EXCEPT !.f = r.f]
           /\ outcome' = r.res
           /\ set_failed' = (set_failed \/ r.res = "Length")
    /\ Called("set", k, <<v>>)

\* ------------------------------------------------------------------------
\* path.rs: TryFrom<&Id> for PathBuf, with std::path as it is on Unix
\* ------------------------------------------------------------------------

\* The segments of a path between its slashes, empty ones included.
RECURSIVE Segments(_, _)
Segments(bytes, seg) ==
    IF bytes = <<>> THEN <<seg>>
    ELSE IF Head(bytes) = SLASH THEN <<seg>> \o Segments(Tail(bytes), <<>>)
    ELSE Segments(Tail(bytes), Append(seg, Head(bytes)))

\* PathBuf::from(context).join(path): an absolute path replaces the
\* context, any other is appended after a slash, which is left out if the
\* context is empty or ends with one.
path_join(context, path) ==
    IF path # <<>> /\ Head(path) = SLASH THEN path
    ELSE IF context = <<>> \/ context[Len(context)] = SLASH
         THEN context \o path
         ELSE context \o <<SLASH>> \o path

\* Path::components(): the root if the path starts with a slash, then one
\* component per segment; empty segments are left out, and so is "." unless
\* it is the first segment of a relative path.
RECURSIVE components_from(_, _, _)
components_from(segs, k, rooted) ==
    IF k > Len(segs) THEN <<>>
    ELSE LET seg == segs[k]
             this == IF seg = <<>> THEN <<>>
                     ELSE IF seg = <<DOT>>
                          THEN (IF k = 1 /\ ~rooted
                                THEN <<[kind |-> "CurDir", part |-> seg]>>
                                ELSE <<>>)
                     ELSE IF seg = <<DOT, DOT>>
                          THEN <<[kind |-> "ParentDir", part |-> seg]>>
                     ELSE <<[kind |-> "Normal", part |-> seg]>>
         IN  this \o components_from(segs, k + 1, rooted)

components(path) ==
    LET rooted == path # <<>> /\ Head(path) = SLASH
    IN  (IF rooted THEN <<[kind |-> "RootDir", part |-> <<>>]>> ELSE <<>>)
        \o components_from(Segments(path, <<>>), 1, rooted)

\* The loop of try_from as it would be if a ".." component were passed over
\* like a "." component.
RECURSIVE walk_skips_parent(_, _)
walk_skips_parent(comps, stack) ==
    IF comps = <<>> THEN [res |-> "Ok", path |-> stack]
    ELSE LET c == Head(comps)
         IN  IF c.kind = "Normal"
             THEN walk_skips_parent(Tail(comps), Append(stack, c.part))
             ELSE IF c.kind \in {"CurDir", "ParentDir"}
             THEN walk_skips_parent(Tail(comps), stack)
             ELSE [res |-> "RootDir", path |-> <<>>]

\* The loop of try_from over the components of the joined path.
RECURSIVE walk(_, _)
walk(comps, stack) ==
    IF comps = <<>> THEN [res |-> "Ok", path |-> stack]
    ELSE LET c == Head(comps)
         IN  IF c.kind = "Normal"
             THEN walk(Tail(comps), Append(stack, c.part))
             ELSE IF c.kind = "CurDir" THEN walk(Tail(comps), stack)
             ELSE IF c.kind = "ParentDir"
             THEN [res |-> "ParentDir", path |-> <<>>]
             ELSE [res |-> "RootDir", path |-> <<>>]

\* PathBuf::try_from(&id), given the Format of the Id; the path returned is
\* the sequence of its segments.
try_from(f) ==
    walk(components(path_join(Bytes(id_components(f)[3].v),
                              Bytes(id_components(f)[4].v))), <<>>)

\* ------------------------------------------------------------------------
\* An Id made by Id::new and converted to a path
\* ------------------------------------------------------------------------

\* Contexts and paths: plain, nested, rooted, with "." and ".." segments in
\* every place, with doubled and trailing slashes, a segment that only
\* starts with "..", and the empty context.
PathContexts ==
    { Str(s) : s \in { <<100>>, <<100, SLASH, 101>>, <<SLASH, 100>>,
                       <<DOT, DOT>>, <<100, SLASH, DOT, DOT>>,
                       <<DOT, SLASH, 100>>, <<100, SLASH, SLASH, 101>>,
                       <<100, SLASH>>, <<SLASH, DOT, DOT>>, <<>> } }

PathPaths ==
    { Str(s) : s \in { <<105>>, <<97, SLASH, 105>>, <<SLASH, 105>>,
                       <<DOT, DOT>>, <<DOT, DOT, SLASH, 105>>,
                       <<97, SLASH, DOT, DOT, SLASH, 105>>, <<DOT, SLASH, 105>>,
                       <<DOT>>, <<97, SLASH, DOT, SLASH, 105>>, <<105, SLASH>>,
                       <<DOT, DOT, 105>> } }

PInit ==
    conversion = [context |-> <<>>, path |-> <<>>, res |-> "None",
                  segments |-> <<>>]

\* Id::new("f", context, path), then PathBuf::try_from on the identifier
Convert(context, path) ==
    /\ \E id \in {id_new(Str(<<102>>), context, path, debug_assertions)} :
           /\ id.res = "Ok"
           /\ \E r \in {try_from(id.f)} :
                  conversion' = [context |-> context, path |-> path,
                                 res |-> r.res, segments |-> r.path]
    /\ UNCHANGED <<fvars, debug_assertions, mvars, ivars>>

\* ------------------------------------------------------------------------
\* Specifications
\* ------------------------------------------------------------------------

Init == debug_assertions \in BOOLEAN /\ FInit /\ MInit /\ IInit /\ PInit

FNext ==
    \/ \E index \in 0..(FormatN - 1), v \in SetValues : Set(index, v)
    \/ \E s \in ParseInputs : Parse(s)

MNext ==
    \/ \E s \in SelectorInputs : Add(s)
    \/ Build
    \/ \E s \in QueryIds : Query(s)

\* A Format<3> under set and from_str
SpecFormat == Init /\ [][FNext]_vars

\* A Builder and its Matcher
SpecMatcher == Init /\ [][MNext]_vars

INext ==
    \/ \E t \in NewTriples : IdNew(t[1], t[2], t[3])
    \/ \E s \in IdStrings : IdParse(s)
    \/ \E s \in IdStrings : SelectorParse(s)
    \/ SelectorDefault
    \/ \E k \in 1..(IdN - 1), v \in ComponentValues : SetComponent(k, v)

\* An Id or a Selector under its constructors, parsers and setters
SpecId == Init /\ [][INext]_vars

PNext == \E c \in PathContexts, p \in PathPaths : Convert(c, p)

\* Identifiers converted to paths
SpecPath == Init /\ [][PNext]_vars

\* ------------------------------------------------------------------------
\* Properties of the Matcher and its Builder
\* ------------------------------------------------------------------------

\* A query that was answered, on a builder none of whose add calls failed.
Answered == query.res = "Ok" /\ ~add_failed

\* The components of a selector given as a string, and of an identifier.
ComponentsOfSelector(s) ==
    CHOOSE c \in {selector_components(sel.f) :
                      sel \in {selector_from_str(s, debug_assertions)}} : TRUE

ComponentsOfId(s) ==
    CHOOSE c \in {id_components(id.f) :
                      id \in {id_from_str(s, debug_assertions)}} : TRUE

\* One selector against one identifier, component by component: an empty
\* component of the selector is a wildcard, and an absent component of the
\* identifier is matched by every selector.
SelectorMatchesId(sel, id) ==
    \A sc \in {ComponentsOfSelector(sel)} : \A ic \in {ComponentsOfId(id)} :
        \A k \in 1..5 :
            \/ ~ic[k].some
            \/ ~sc[k].some
            \/ glob_is_match(Bytes(sc[k].v), Bytes(ic[k].v))

\* One selector against one identifier by the five tests of is_match: the
\* pattern of the component, "**" for an empty one, against the value of
\* the identifier, the sentinel for an absent one.
SelectorPassesAllTests(sel, id) ==
    \A sc \in {ComponentsOfSelector(sel)} : \A ic \in {ComponentsOfId(id)} :
        \A k \in 1..5 :
            glob_is_match(IF sc[k].some THEN Bytes(sc[k].v) ELSE <<STAR, STAR>>,
                          IF ic[k].some THEN Bytes(ic[k].v) ELSE SENTINEL)

\* C1: for a matcher built from successfully added selectors, is_match(id)
\* is true if and only if matches(id) is a non-empty list.
C1_IsMatchIffMatchesNonEmpty ==
    Answered => (query.is_match <=> query.matches # <<>>)

\* C2: for a matcher built from selectors that were all added successfully,
\* matches(id) is the strictly ascending list of exactly the indices i whose
\* selector matches id in each of the five components, an empty component of
\* the selector being a wildcard and an absent binding or fragment of id
\* being matched by every selector.
C2_MatchesExactlyTheMatchingSelectors ==
    Answered =>
        /\ \A j \in 1..(Len(query.matches) - 1) :
               query.matches[j] < query.matches[j + 1]
        /\ {query.matches[j] : j \in 1..Len(query.matches)}
               = {i \in 0..(Len(added) - 1) :
                      SelectorMatchesId(added[i + 1], query.id)}

\* C2 witness: of two selectors added, the second names a binding and is
\* the only one returned for an identifier that has no binding.
C2_Witness ==
    /\ Answered
    /\ Len(added) = 2
    /\ query.matches = <<1>>
    /\ added[2] = SelStr(<<>>, Str(<<97>>), <<>>, <<>>, <<>>)
    /\ ~ComponentsOfId(query.id)[2].some

\* C3: is_match(id) is true if and only if one single selector among those
\* added passes all five component tests against id.
C3_IsMatchIffOneSelectorMatchesAll ==
    Answered =>
        (query.is_match <=>
            \E i \in 1..Len(added) : SelectorPassesAllTests(added[i], query.id))

\* C4: after any sequence of add calls, failed ones included, the five
\* pattern-set builders hold the same number of patterns, the number of add
\* calls that returned Ok.
C4_BuildersHoldOnePatternPerOkAdd ==
    \A k \in 1..5 : Len(builder[FIELDS[k]]) = Len(added)

\* ------------------------------------------------------------------------
\* Properties of Format
\* ------------------------------------------------------------------------

\* Length of span k (of the code's numbering) in the current state.
LenOfSpan(k) == spans[k + 1].end - spans[k + 1].start

ByteAt(r, k) == Bytes(Take(Drop(r, k), 1))

\* C5: when set returns an error, the buffer, every span and every flag are
\* as they were before the call.
C5_FailedSetLeavesFormatUnchanged ==
    [][(last'.op = "set" /\ result' = "Length")
          => (value' = value /\ spans' = spans /\ flags' = flags)]_vars

\* C6: in a Format reached from new() or a successful parse by set calls
\* that all returned Ok, span 0 starts at 0, each span ends one byte before
\* the next one starts, and the last span ends at the length of the buffer.
C6_SpansContiguous ==
    ~failed =>
        /\ spans[1].start = 0
        /\ \A k \in 1..(Len(spans) - 1) : spans[k].end = spans[k + 1].start - 1
        /\ spans[Len(spans)].end = ByteLen(value)

\* C6 witness: a set of span 0 returned Ok, no call failed before it, and
\* the spans after it have moved away from where new() or the parse put them.
C6_Witness ==
    /\ ~failed
    /\ last.op = "set"
    /\ result = "Ok"
    /\ last.index = 0
    /\ steps >= 2
    /\ spans[2].start > 1
    /\ spans[3].end > spans[3].start

\* C7: after any sequence of set calls the buffer holds exactly N-1
\* separator bytes, each between two consecutive spans.
C7_SeparatorsBetweenSpans ==
    (last.op = "set" /\ result # "Panic") =>
        /\ CountByte(value, COLON) = Len(spans) - 1
        /\ \A k \in 1..(Len(spans) - 1) :
               /\ spans[k + 1].start = spans[k].end + 1
               /\ ByteAt(value, spans[k].end) = <<COLON>>

\* C8: a successful set(i, v) leaves get(j) and flag j as they were for
\* every j other than i, and the bounds of every span before i.
C8_SetLeavesOtherSpansUntouched ==
    [][(last'.op = "set" /\ result' = "Ok") =>
          \A j \in 0..(Len(spans) - 1) \ {last'.index} :
              /\ get([value |-> value', spans |-> spans', flags |-> flags'], j)
                     = get(Format, j)
              /\ (j \in flags') <=> (j \in flags)
              /\ (j < last'.index) => spans'[j + 1] = spans[j + 1]]_vars

\* C9: after a successful set(i, v), span i is as long as the encoded form
\* of v, and both bounds of every later span have moved by the encoded
\* length of v minus the previous length of span i.
C9_SetShiftsLaterSpansByDelta ==
    [][(last'.op = "set" /\ result' = "Ok") =>
          LET i == last'.index
              len == ByteLen(encode(last'.v).bytes)
              delta == len - LenOfSpan(i)
          IN  /\ spans'[i + 1].end - spans'[i + 1].start = len
              /\ \A j \in (i + 1)..(Len(spans) - 1) :
                     spans'[j + 1] = Span(spans[j + 1].start + delta,
                                          spans[j + 1].end + delta)]_vars

\* C9 witness: a set of span 0 with a value that needs encoding returned Ok
\* and the last span, which is not empty, now starts beyond offset 2.
C9_Witness ==
    /\ last.op = "set"
    /\ result = "Ok"
    /\ last.index = 0
    /\ last.v = Str(<<97, COLON, 98>>)
    /\ LenOfSpan(0) = 5
    /\ LenOfSpan(2) > 0
    /\ spans[3].start > 2

\* C10: set(i, v) returns the Length error exactly when the difference
\* between the encoded length of v and the length of span i is no i16, or
\* adding it to the end of span i or to a bound of a later span leaves
\* 0..65535; in every other case it returns Ok.
C10_LengthErrorIffDeltaOrBoundOutOfRange ==
    [][last'.op = "set" =>
          LET i == last'.index
              delta == ByteLen(encode(last'.v).bytes) - LenOfSpan(i)
              out(x) == x + delta < 0 \/ x + delta > U16_MAX
              overflow ==
                  \/ delta < I16_MIN
                  \/ delta > I16_MAX
                  \/ out(spans[i + 1].end)
                  \/ \E j \in (i + 1)..(Len(spans) - 1) :
                         out(spans[j + 1].start) \/ out(spans[j + 1].end)
          IN  result' = IF overflow THEN "Length" ELSE "Ok"]_vars

\* C11: after a successful set(i, v) with a value v that contains the
\* separator ':' and no backslash, get(i) returns exactly v, and span i of
\* the raw buffer holds no ':'.
C11_DelimiterValueRoundTrips ==
    (/\ last.op = "set"
     /\ result = "Ok"
     /\ CountByte(last.v, COLON) > 0
     /\ CountByte(last.v, BACKSLASH) = 0) =>
        /\ get(Format, last.index) = [panic |-> FALSE, bytes |-> last.v]
        /\ CountByte(Slice(value, spans[last.index + 1].start,
                           spans[last.index + 1].end), COLON) = 0

\* ------------------------------------------------------------------------
\* The wildcard selector
\* ------------------------------------------------------------------------

\* The selector whose five components are all empty.
EmptySelector == SelStr(<<>>, <<>>, <<>>, <<>>, <<>>)

\* C12: in a matcher built from successfully added selectors that holds the
\* all-empty selector at index i, is_match(id) is true and matches(id)
\* contains i for every identifier id, whether or not id has a binding or a
\* fragment.
C12_EmptySelectorMatchesEveryId ==
    Answered =>
        \A i \in 0..(Len(added) - 1) :
            added[i + 1] = EmptySelector =>
                /\ query.is_match
                /\ \E j \in 1..Len(query.matches) : query.matches[j] = i

\* C12 witness: the all-empty selector was added second, after a selector
\* that does not match the identifier asked, which has a fragment and no
\* binding; the answer is the index 1 alone.
C12_Witness ==
    /\ Answered
    /\ Len(added) = 2
    /\ added[2] = EmptySelector
    /\ query.matches = <<1>>
    /\ query.is_match
    /\ ~ComponentsOfId(query.id)[2].some
    /\ ComponentsOfId(query.id)[5].some

\* ------------------------------------------------------------------------
\* Properties of Id and Selector
\* ------------------------------------------------------------------------

\* The object at hand is an Id none of whose setters has returned Length.
SoundId == object.kind = "Id" /\ ~set_failed

\* C13: every Id obtained from Id::new or by parsing a string, and then by
\* setter calls that succeeded, has a non-empty scheme, a non-empty context
\* and a non-empty path.
C13_RequiredComponentsNonEmpty ==
    SoundId => \A k \in {1, 3, 4} : id_components(object.f)[k].v # <<>>

\* The last call was Id::new with three non-empty values without backslash.
NewOfValidTriple ==
    /\ call.op = "Id::new"
    /\ \A j \in 1..3 : /\ call.args[j] # <<>>
                       /\ CountByte(call.args[j], BACKSLASH) = 0

\* Id::new returned Ok, and its string form parses as an Id equal to it.
NewRoundTrips ==
    /\ outcome = "Ok"
    /\ \E r \in {id_from_str(to_string(object.f), debug_assertions)} :
           r.res = "Ok" /\ eq(r.f, object.f)

\* Length of the string Id::new puts together for its three values.
NewStringLen ==
    8 + ByteLen(encode(call.args[1]).bytes)
      + ByteLen(encode(call.args[2]).bytes)
      + ByteLen(encode(call.args[3]).bytes)

\* C14 as stated: for every triple of non-empty values without backslash,
\* Id::new succeeds and parsing its string form yields an equal Id.
C14_Original == NewOfValidTriple => NewRoundTrips

\* C14: for every triple of non-empty values without backslash whose string
\* form "zri:" enc(s) "::" enc(c) ":" enc(p) ":" is at most 65535 bytes
\* long, Id::new succeeds and parsing its string form yields an equal Id.
C14_NewRoundTripsThroughString ==
    (NewOfValidTriple /\ NewStringLen <= U16_MAX) => NewRoundTrips

\* C14 witness: Id::new with a context that holds a separator returned Ok
\* and its string form parsed as an equal Id.
C14_Witness ==
    /\ NewOfValidTriple
    /\ NewRoundTrips
    /\ call.args[2] = Str(<<97, COLON, 98>>)

\* ------------------------------------------------------------------------
\* Properties of Format::from_str
\* ------------------------------------------------------------------------

\* C15: parsing a string with more than N-1 separators into a Format<N>
\* returns the Cardinality error as a value, it does not panic.
C15_TooManySeparatorsIsCardinality ==
    (last.op = "parse" /\ CountByte(last.v, COLON) > Len(spans) - 1)
        => result = "Cardinality"

\* The last call was from_str on a string with fewer than N-1 separators.
ParsedTooFewSeparators ==
    last.op = "parse" /\ CountByte(last.v, COLON) < Len(spans) - 1

HasBackslash(c) ==
    \E j \in 1..Len(c.args) : CountByte(c.args[j], BACKSLASH) > 0

\* C17: Id::new, the setters of Id and Selector, and the parsers of Id and
\* Selector return the Backslash error whenever an argument holds a
\* backslash, and a setter that fails this way leaves the object unchanged.
C17_BackslashIsRejected ==
    [][HasBackslash(call') =>
          /\ outcome' = "Backslash"
          /\ object' = object]_vars

\* C17 witness: a setter of an Id was given a value with a backslash.
C17_Witness ==
    /\ call.op = "set"
    /\ object.kind = "Id"
    /\ HasBackslash(call)
    /\ outcome = "Backslash"

\* ------------------------------------------------------------------------
\* Properties of Id::new
\* ------------------------------------------------------------------------

\* C18: the string form of the identifier Id::new(s, c, p) returns is
\* "zri:" enc(s) "::" enc(c) ":" enc(p) ":", enc being the percent-encoding
\* of the component, and its binding and its fragment are None.
C18_NewStringForm ==
    (call.op = "Id::new" /\ outcome = "Ok") =>
        /\ to_string(object.f)
               = JoinAll(<<ZRI, percent_encode(call.args[1]), <<>>,
                           percent_encode(call.args[2]),
                           percent_encode(call.args[3]), <<>>>>)
        /\ id_components(object.f)[2] = None
        /\ id_components(object.f)[5] = None

\* C18 witness: Id::new("f", "a:b", "i") returned Ok and the string form
\* of the identifier is "zri:f::a%3Ab:i:".
C18_Witness ==
    /\ call.op = "Id::new"
    /\ outcome = "Ok"
    /\ call.args = <<Str(<<102>>), Str(<<97, COLON, 98>>), Str(<<105>>)>>
    /\ Bytes(to_string(object.f))
           = <<122, 114, 105, COLON, 102, COLON, COLON, 97, PERCENT, 51, 65,
               98, COLON, 105, COLON>>

\* ------------------------------------------------------------------------
\* Properties of the parsers of Id and Selector
\* ------------------------------------------------------------------------

\* The text of a string before its first separator.
RECURSIVE Tag(_)
Tag(s) ==
    IF s = <<>> \/ Head(s).b = COLON THEN <<>>
    ELSE <<Head(s)>> \o Tag(Tail(s))

\* The tag the parser called last expects.
ExpectedTag == IF call.op = "Id::from_str" THEN ZRI ELSE ZRS

\* C19: parsing a string as an Id succeeds only if the text before its
\* first separator is exactly "zri", as a Selector only if it is exactly
\* "zrs"; the string form of what was parsed starts with that tag and a
\* separator; and a string with another tag, when no error of the format
\* itself comes first, yields the Prefix error.
C19_TagIsLiteral ==
    call.op \in {"Id::from_str", "Selector::from_str"} =>
        /\ outcome = "Ok" =>
               /\ Tag(call.args[1]) = ExpectedTag
               /\ Take(to_string(object.f), 4)
                      = Cat(ExpectedTag, Str(<<COLON>>))
        /\ (/\ Tag(call.args[1]) # ExpectedTag
            /\ outcome \notin {"Backslash", "Length", "Cardinality", "Panic"})
               => outcome = "Prefix"

\* The text of a string between its k-th separator and the next one.
RECURSIVE Field(_, _)
Field(s, k) ==
    IF k = 0 THEN Tag(s)
    ELSE Field(Drop(s, ByteLen(Tag(s)) + 1), k - 1)

\* The last call parsed, as an Id, a string with the tag "zri" and exactly
\* five separators.
ParsedTaggedId ==
    /\ call.op = "Id::from_str"
    /\ Tag(call.args[1]) = ZRI
    /\ CountByte(call.args[1], COLON) = IdN - 1

\* The parse failed with the Component error exactly if scheme, context or
\* path of the string is empty, and an Id it returned reports an empty
\* binding or fragment as None.
ComponentErrorIffRequiredEmpty ==
    /\ outcome = "Component"
           <=> \E k \in {1, 3, 4} : Field(call.args[1], k) = <<>>
    /\ outcome = "Ok" =>
           \A k \in {2, 5} :
               Field(call.args[1], k) = <<>>
                   => id_components(object.f)[k] = None

C21_SelectorWithoutArguments ==
    call.op \in {"Selector::new", "Selector::default"} =>
        /\ to_string(object.f) = EmptySelector
        /\ \A k \in 1..5 : selector_components(object.f)[k] = None
        /\ \E r \in {selector_from_str(to_string(object.f),
                                       debug_assertions)} :
               r.res = "Ok" /\ eq(r.f, object.f)

\* ------------------------------------------------------------------------
\* Properties of equality and order
\* ------------------------------------------------------------------------

\* The offsets at which a run of a string starts, and its length.
RECURSIVE RunOffsets(_, _)
RunOffsets(r, at) ==
    IF r = <<>> THEN {at}
    ELSE {at} \cup RunOffsets(Tail(r), at + Head(r).n)

\* a comes before b in the lexicographic order of bytes: at the first
\* offset where they differ, a has ended or holds the lesser byte. That
\* offset is one where a run of a or of b starts, or where one of them ends.
LexLess(a, b) ==
    \E k \in RunOffsets(a, 0) \cup RunOffsets(b, 0) :
        /\ k <= ByteLen(a)
        /\ k < ByteLen(b)
        /\ Take(a, k) = Take(b, k)
        /\ \/ k = ByteLen(a)
           \/ Head(Drop(a, k)).b < Head(Drop(b, k)).b

\* Strings to compare with: an identifier, the same with its tag escaped,
\* one whose scheme is an escaped separator, and the empty selector.
ComparedStrings ==
    LET f == Str(<<102>>)
        d == Str(<<100>>)
        i == Str(<<105>>)
    IN  { IdStr(f, <<>>, d, i, <<>>),
          JoinAll(<<Str(<<PERCENT, 55, 65, 114, 105>>), f, <<>>, d, i, <<>>>>),
          IdStr(Str(<<PERCENT, 51, 65>>), <<>>, d, i, <<>>),
          EmptySelector }

\* The Formats that parsing these strings yields.
ParsedFormats ==
    {r.f : r \in {p \in {from_str(s, IdN, debug_assertions) :
                             s \in ComparedStrings} : p.res = "Ok"}}

\* C22: two Formats, the one of the object at hand and one that parsing a
\* string yields, are equal exactly if their strings are the same bytes,
\* whatever their flags are; one is less than the other exactly if its
\* string comes first in the lexicographic order of bytes, and neither is
\* less exactly if the strings are the same; and two that are equal are not
\* a pair that differ in their strings while all their spans decode to the
\* same text.
C22_EqualityIsOnRawBytes ==
    outcome # "Panic" =>
        \A g \in ParsedFormats :
            /\ eq(g, object.f) <=> to_string(g) = to_string(object.f)
            /\ cmp(g, object.f) = "Less"
                   <=> LexLess(to_string(g), to_string(object.f))
            /\ cmp(g, object.f) = "Equal"
                   <=> to_string(g) = to_string(object.f)
            /\ \/ ~eq(g, object.f)
               \/ ~(/\ to_string(g) # to_string(object.f)
                    /\ ~set_failed
                    /\ \A k \in 0..(IdN - 1) : get(g, k) = get(object.f, k))

\* C22 witness: the scheme of an Id was set to ":", which leaves "%3A" in
\* the buffer and the flag of the span clear; parsing its string form
\* yields a Format with that flag set, and the two are equal.
C22_Witness ==
    /\ call.op = "set"
    /\ outcome = "Ok"
    /\ object.kind = "Id"
    /\ \E g \in ParsedFormats :
           /\ eq(g, object.f)
           /\ g.flags # object.f.flags

\* ------------------------------------------------------------------------
\* Properties of the conversion to a path
\* ------------------------------------------------------------------------

\* The value has a ".." segment.
HasParentSegment(v) ==
    \E k \in 1..Len(Segments(Bytes(v), <<>>)) :
        Segments(Bytes(v), <<>>)[k] = <<DOT, DOT>>

\* The segments of a value that are neither empty nor "." nor "..".
NormalSegments(v) ==
    SelectSeq(Segments(Bytes(v), <<>>),
              LAMBDA seg : seg \notin {<<>>, <<DOT>>, <<DOT, DOT>>})

\* The context joined with the path starts with a slash.
JoinedIsRooted ==
    \/ Bytes(Take(conversion.path, 1)) = <<SLASH>>
    \/ Bytes(Take(conversion.context, 1)) = <<SLASH>>

\* A path that was returned holds the normal segments of the context and
\* then those of the path, and nothing else.
ReturnedPathStaysInContext ==
    conversion.res = "Ok" =>
        conversion.segments = NormalSegments(conversion.context)
                                  \o NormalSegments(conversion.path)

\* C23 as stated: the conversion fails with the parent-directory error
\* whenever the context or the path has a ".." segment, and with the root
\* error whenever the joined path is absolute or rooted; a path it returns
\* holds only normal segments of the context followed by the path.
C23_Original ==
    conversion.res # "None" =>
        /\ (\/ HasParentSegment(conversion.context)
            \/ HasParentSegment(conversion.path))
               => conversion.res = "ParentDir"
        /\ JoinedIsRooted => conversion.res = "RootDir"
        /\ ReturnedPathStaysInContext

\* C23: the conversion fails with the root error whenever the joined path
\* is absolute or rooted, with the parent-directory error whenever it is
\* not and the context or the path has a ".." segment, and succeeds in
\* every other case; a path it returns holds only normal segments of the
\* context followed by the path.
C23_PathNeverEscapesContext ==
    conversion.res # "None" =>
        /\ conversion.res =
               IF JoinedIsRooted THEN "RootDir"
               ELSE IF \/ HasParentSegment(conversion.context)
                       \/ HasParentSegment(conversion.path)
                    THEN "ParentDir"
                    ELSE "Ok"
        /\ ReturnedPathStaysInContext

\* C23 witness: the context "d" with the path "a/../i" was refused with the
\* parent-directory error.
C23_Witness ==
    /\ conversion.context = Str(<<100>>)
    /\ conversion.path = Str(<<97, SLASH, DOT, DOT, SLASH, 105>>)
    /\ conversion.res = "ParentDir"

\* ------------------------------------------------------------------------
\* Properties of the accessors
\* ------------------------------------------------------------------------

\* The Ids that parsing the strings to compare with yields.
ParsedIds ==
    {r.f : r \in {p \in {id_from_str(s, debug_assertions) :
                             s \in ComparedStrings} : p.res = "Ok"}}

\* C24: two Ids that compare equal, the one at hand, made by any sequence
\* of successful calls, and one that parsing a string yields, return the
\* same scheme, binding, context, path and fragment.
C24_EqualIdsReturnEqualComponents ==
    SoundId =>
        \A g \in ParsedIds :
            eq(g, object.f) => id_components(g) = id_components(object.f)

\* ------------------------------------------------------------------------
\* Properties of the flags
\* ------------------------------------------------------------------------

\* The bytes hold a percent sign followed by two hexadecimal digits.
RECURSIVE HasEscape(_)
HasEscape(r) ==
    IF r = <<>> THEN FALSE
    ELSE IF Head(r).b # PERCENT THEN HasEscape(Tail(r))
    ELSE \/ \E nxt \in {Bytes(Take(Drop(r, 1), 2))} :
                Len(nxt) = 2 /\ IsHex(nxt[1]) /\ IsHex(nxt[2])
         \/ HasEscape(Drop(r, 1))

\* The raw bytes of span k in the current state.
RawSpan(k) == Slice(value, spans[k + 1].start, spans[k + 1].end)

\* C25: in every Format reached without a failed call, flag i is set
\* exactly when the raw bytes of span i hold a percent-escape, and get(i) is
\* the percent-decoding of the raw bytes of span i.
C25_FlagIffSpanHoldsEscape ==
    (~failed /\ result # "Panic") =>
        \A k \in 0..(Len(spans) - 1) :
            /\ k \in flags <=> HasEscape(RawSpan(k))
            /\ get(Format, k).bytes = decode(RawSpan(k))

\* C26: the identifier that Id::new(s, c, p) returns gives back exactly s
\* from scheme(), c from context() and p from path().
C26_NewReturnsItsInputs ==
    (call.op = "Id::new" /\ outcome = "Ok") =>
        /\ id_components(object.f)[1].v = call.args[1]
        /\ id_components(object.f)[3].v = call.args[2]
        /\ id_components(object.f)[4].v = call.args[3]

\* C27: no accessor of an Id or Selector made by constructors, parsers and
\* successful setters returns a value that holds a backslash.
C27_NoBackslashInComponents ==
    (~set_failed /\ outcome # "Panic") =>
        \A k \in 1..5 :
            CountByte(selector_components(object.f)[k].v, BACKSLASH) = 0

\* The components of the identifier of the last answered query.
QueriedId == id_components(id_from_str(query.id, debug_assertions).f)

\* The components of the one selector the matcher was built from.
SingleSelector ==
    selector_components(selector_from_str(added[1], debug_assertions).f)

\* A pattern other than a run of '*': it does not match every value.
Narrower(p) == \E k \in 1..Len(Bytes(p)) : Bytes(p)[k] # STAR

\* C28: in a matcher built from one selector, the test of a binding or
\* fragment that the identifier lacks passes when the selector leaves the
\* component empty and fails when the selector gives a pattern narrower
\* than the universal wildcard.
C28_AbsentValueMatchesOnlyWildcard ==
    (matcher.built /\ Len(added) = 1 /\ ~add_failed /\ query.res = "Ok") =>
        \A k \in {2, 5} :
            ~QueriedId[k].some =>
                /\ ~SingleSelector[k].some =>
                       compare(matcher.sets[FIELDS[k]], QueriedId[k])
                /\ (SingleSelector[k].some /\ Narrower(SingleSelector[k].v)) =>
                       ~compare(matcher.sets[FIELDS[k]], QueriedId[k])

\* C29: from_str of a string longer than 65535 bytes returns the Length
\* error wherever its separators are, the one at offset 65535 included; it
\* does not stop on an arithmetic overflow.
C29_TooLongIsLength ==
    (last.op = "parse" /\ ByteLen(last.v) > U16_MAX) => result = "Length"

\* The debug assertions of Span::new, shift_start and shift_end and the
\* subtraction of Span::len hold at every step of a further set call on the
\* Format: a set whose range is inside the buffer does not panic in a build
\* with assertions.
AssertionsHoldInSet ==
    \A index \in 0..(FormatN - 1), v \in SetValues :
        RangeOk(Format, index) => set(Format, index, v, TRUE).res # "Panic"

\* from_str panics only on a separator too many or on the separator at
\* offset 65535, never on the assertion of Span::new.
AssertionHoldsInParse ==
    (last.op = "parse" /\ result = "Panic") =>
        \/ CountByte(last.v, COLON) >= FormatN
        \/ Slice(last.v, U16_MAX, U16_MAX + 1) = Rep(COLON, 1)

\* C30: every span of a Format has start <= end, after a set that returned
\* an error too, and the assertions on spans hold in each step of a shift.
C30_SpansKeepStartBeforeEnd ==
    /\ \A k \in 1..Len(spans) : spans[k].start <= spans[k].end
    /\ AssertionsHoldInSet
    /\ AssertionHoldsInParse

\* set(1, "ab"), then set(0, v) with v too long has returned Length with
\* the buffer spliced and the spans as they were, then set(1, "") has cut
\* two bytes and shifted the spans back.
C30_Witness ==
    /\ failed /\ last.op = "set" /\ result = "Ok" /\ last.index = 1
    /\ value = Cat(Rep(97, I16_MAX - 1), Str(<<COLON, 97, 98, COLON>>))
    /\ spans = init(FormatN)

====
